---- MODULE Spec2Model ----
(***************************************************************************)
(* Model of startop/scripts/iorap/lib/iorapd_utils.py: the compiled-trace  *)
(* installer and the three readahead controller operations, together with  *)
(* the calls they make on lib.cmd_utils, os.path.exists, os.putenv and     *)
(* print.  Strings are TLA+ strings, str.format and str() are computed.    *)
(***************************************************************************)
EXTENDS Integers, Sequences, FiniteSets, TLC

VARIABLES
  pc,          \* position of the (single) Python thread
  op,          \* function of this module being executed / last executed
  args,        \* its actual parameters
  compiled_path, \* local variable of iorapd_compiler_install_trace_file
  ret,         \* <<value>> returned by the last finished call, <<>> while running
  environ,     \* process environment as subprocesses inherit it
  localFiles,  \* paths for which os.path.exists is true
  cmdCalls,    \* calls received by cmd_utils.run_*_command during this call
  funcCalls,   \* calls received by cmd_utils.run_shell_func during this call
  stdout,      \* lines printed during this call
  debugSeen    \* history: some wait_for_iorapd_finish call so far had debug=True

vars == <<pc, op, args, compiled_path, ret, environ, localFiles, cmdCalls,
          funcCalls, stdout, debugSeen>>

\* ---------------------------------------------------------------- bounds
MaxTimeout == 11

\* ---------------------------------------------------------------- inputs
Packages == {"com.example.app", "pkg"}
Activities == {"MainActivity", "act"}
InputFiles == {"/tmp/trace.pb", "out/compiled.pb"}
Timestamps == {"10-31 12:00:00.000", ""}
Timeouts == (-1)..MaxTimeout

NoValue == "<none>"
NoArgs == [package |-> NoValue, activity |-> NoValue, input_file |-> NoValue,
           timeout |-> 0, debug |-> FALSE, logcat_timestamp |-> NoValue]

\* ---------------------------------------------------------------- module constants
IORAPD_DATA_PATH == "/data/misc/iorapd"
IORAP_COMMON_BASH_SCRIPT == "startop/scripts/iorap/common"

\* ---------------------------------------------------------------- pure functions
\* str.format with positional "{}" fields: the template is the sequence of
\* its literal pieces and "{}" fields, each field takes the next argument.
RECURSIVE Format(_, _)
Format(tpl, a) ==
  IF tpl = <<>> THEN ""
  ELSE IF Head(tpl) = "{}" THEN Head(a) \o Format(Tail(tpl), Tail(a))
  ELSE Head(tpl) \o Format(Tail(tpl), a)

Digits == <<"0", "1", "2", "3", "4", "5", "6", "7", "8", "9">>

\* str(int): decimal digits, most significant first, "-" for negatives.
RECURSIVE str(_)
str(n) ==
  IF n < 0 THEN "-" \o str(-n)
  ELSE IF n < 10 THEN Digits[n + 1]
  ELSE str(n \div 10) \o Digits[(n % 10) + 1]

_iorapd_path_to_data_file_slash(package, activity, suffix) ==
  Format(<<"{}", "/", "{}", "/", "{}", ".", "{}">>,
         <<IORAPD_DATA_PATH, package, activity, suffix>>)

_iorapd_path_to_data_file(package, activity, suffix) ==
  Format(<<"{}", "/", "{}", "%2F", "{}", ".", "{}">>,
         <<IORAPD_DATA_PATH, package, activity, suffix>>)

\* ---------------------------------------------------------------- collaborators
\* cmd_utils.run_adb_shell_command / run_shell_command: the call is recorded,
\* its success flag is chosen by the environment.
CmdCall(runner, cmd, passed) == [runner |-> runner, cmd |-> cmd, passed |-> passed]

\* cmd_utils.run_shell_func: recorded with the environment the child inherits.
FuncCall(script, func, a, passed) ==
  [script |-> script, func |-> func, args |-> a, passed |-> passed,
   verbose |-> environ.verbose]

putenv(key, value) == [environ EXCEPT ![key] = value]

\* ---------------------------------------------------------------- initial state
Init ==
  /\ pc = "idle"
  /\ op = NoValue
  /\ args = NoArgs
  /\ compiled_path = NoValue
  /\ ret = <<>>
  /\ environ = [verbose |-> NoValue]
  /\ localFiles \in SUBSET InputFiles
  /\ cmdCalls = <<>>
  /\ funcCalls = <<>>
  /\ stdout = <<>>
  /\ debugSeen = FALSE

\* Entry of any function of the module: fresh call records.
Enter(name, a) ==
  /\ pc = "idle"
  /\ op' = name
  /\ args' = a
  /\ cmdCalls' = <<>>
  /\ stdout' = <<>>

Return(value) ==
  /\ ret' = <<value>>
  /\ pc' = "idle"

\* ---------------------------------------------------------------- iorapd_compiler_install_trace_file
install_begin ==
  \E package \in Packages, activity \in Activities, input_file \in InputFiles :
    /\ Enter("iorapd_compiler_install_trace_file",
             [NoArgs EXCEPT !.package = package, !.activity = activity,
                            !.input_file = input_file])
    /\ compiled_path' = _iorapd_path_to_data_file(package, activity,
                                                  "compiled_trace.pb")
    /\ funcCalls' = <<>>
    /\ ret' = <<>>
    /\ pc' = "install_exists"
    /\ UNCHANGED <<environ, localFiles, debugSeen>>

install_exists_unchecked ==
  /\ pc = "install_exists"
  /\ pc' = "install_mkdir"
  /\ UNCHANGED <<op, args, compiled_path, ret, environ, localFiles, cmdCalls,
                 funcCalls, stdout, debugSeen>>

install_exists ==
  /\ pc = "install_exists"
  /\ IF args.input_file \notin localFiles
     THEN /\ stdout' = Append(stdout, Format(<<"Error: File ", "{}", " does not exist">>,
                                             <<args.input_file>>))
          /\ Return(FALSE)
     ELSE /\ pc' = "install_mkdir"
          /\ UNCHANGED <<stdout, ret>>
  /\ UNCHANGED <<op, args, compiled_path, environ, localFiles, cmdCalls,
                 funcCalls, debugSeen>>

install_mkdir_ignore_failure ==
  /\ pc = "install_mkdir"
  /\ \E passed \in BOOLEAN :
       cmdCalls' = Append(cmdCalls,
                      CmdCall("run_adb_shell_command",
                              Format(<<"mkdir -p \"$(dirname \"", "{}", "\")\"">>,
                                     <<compiled_path>>),
                              passed))
  /\ pc' = "install_push"
  /\ UNCHANGED <<op, args, compiled_path, ret, environ, localFiles, funcCalls,
                 stdout, debugSeen>>

install_mkdir ==
  /\ pc = "install_mkdir"
  /\ \E passed \in BOOLEAN :
       /\ cmdCalls' = Append(cmdCalls,
                        CmdCall("run_adb_shell_command",
                                Format(<<"mkdir -p \"$(dirname \"", "{}", "\")\"">>,
                                       <<compiled_path>>),
                                passed))
       /\ IF ~passed
          THEN Return(FALSE)
          ELSE pc' = "install_push" /\ UNCHANGED ret
  /\ UNCHANGED <<op, args, compiled_path, environ, localFiles, funcCalls,
                 stdout, debugSeen>>

PushCommand == Format(<<"adb push \"", "{}", "\" \"", "{}", "\"">>,
                      <<args.input_file, compiled_path>>)

install_push_return_true ==
  /\ pc = "install_push"
  /\ \E passed \in BOOLEAN :
       /\ cmdCalls' = Append(cmdCalls, CmdCall("run_shell_command", PushCommand, passed))
       /\ Return(TRUE)
  /\ UNCHANGED <<op, args, compiled_path, environ, localFiles, funcCalls,
                 stdout, debugSeen>>

install_push_retry ==
  /\ pc = "install_push"
  /\ \E passed \in BOOLEAN :
       /\ cmdCalls' = Append(cmdCalls, CmdCall("run_shell_command", PushCommand, passed))
       /\ IF passed \/ Len(cmdCalls) >= 2
          THEN Return(passed)
          ELSE UNCHANGED <<pc, ret>>
  /\ UNCHANGED <<op, args, compiled_path, environ, localFiles, funcCalls,
                 stdout, debugSeen>>

install_push ==
  /\ pc = "install_push"
  /\ \E passed \in BOOLEAN :
       /\ cmdCalls' = Append(cmdCalls, CmdCall("run_shell_command", PushCommand, passed))
       /\ Return(passed)
  /\ UNCHANGED <<op, args, compiled_path, environ, localFiles, funcCalls,
                 stdout, debugSeen>>

\* ---------------------------------------------------------------- wait_for_iorapd_finish
wait_begin ==
  \E package \in Packages, activity \in Activities, timeout \in Timeouts,
     debug \in BOOLEAN, logcat_timestamp \in Timestamps :
    /\ Enter("wait_for_iorapd_finish",
             [NoArgs EXCEPT !.package = package, !.activity = activity,
                            !.timeout = timeout, !.debug = debug,
                            !.logcat_timestamp = logcat_timestamp])
    /\ funcCalls' = <<>>
    /\ ret' = <<>>
    /\ pc' = "wait_debug"
    /\ debugSeen' = (debugSeen \/ debug)
    /\ UNCHANGED <<compiled_path, environ, localFiles>>

wait_debug_skip ==
  /\ pc = "wait_debug"
  /\ pc' = "wait_invoke"
  /\ UNCHANGED <<op, args, compiled_path, ret, environ, localFiles, cmdCalls,
                 funcCalls, stdout, debugSeen>>

wait_debug_reset ==
  /\ pc = "wait_debug"
  /\ environ' = putenv("verbose", IF args.debug THEN "y" ELSE NoValue)
  /\ pc' = "wait_invoke"
  /\ UNCHANGED <<op, args, compiled_path, ret, localFiles, cmdCalls,
                 funcCalls, stdout, debugSeen>>

wait_debug ==
  /\ pc = "wait_debug"
  /\ IF args.debug
     THEN environ' = putenv("verbose", "y")
     ELSE UNCHANGED environ
  /\ pc' = "wait_invoke"
  /\ UNCHANGED <<op, args, compiled_path, ret, localFiles, cmdCalls,
                 funcCalls, stdout, debugSeen>>

wait_invoke_param_order ==
  /\ pc = "wait_invoke"
  /\ \E passed \in BOOLEAN :
       /\ funcCalls' = Append(funcCalls,
                         FuncCall(IORAP_COMMON_BASH_SCRIPT,
                                  "iorapd_readahead_wait_until_finished",
                                  <<args.package, args.activity,
                                    str(args.timeout), args.logcat_timestamp>>,
                                  passed))
       /\ Return(passed)
  /\ UNCHANGED <<op, args, compiled_path, environ, localFiles, cmdCalls,
                 stdout, debugSeen>>

wait_invoke ==
  /\ pc = "wait_invoke"
  /\ \E passed \in BOOLEAN :
       /\ funcCalls' = Append(funcCalls,
                         FuncCall(IORAP_COMMON_BASH_SCRIPT,
                                  "iorapd_readahead_wait_until_finished",
                                  <<args.package, args.activity,
                                    args.logcat_timestamp, str(args.timeout)>>,
                                  passed))
       /\ Return(passed)
  /\ UNCHANGED <<op, args, compiled_path, environ, localFiles, cmdCalls,
                 stdout, debugSeen>>

\* ---------------------------------------------------------------- enable / disable
enable_iorapd_readahead_copy_paste ==
  /\ Enter("enable_iorapd_readahead", NoArgs)
  /\ \E passed \in BOOLEAN :
       /\ funcCalls' = <<FuncCall(IORAP_COMMON_BASH_SCRIPT,
                                  "iorapd_readahead_disable", <<>>, passed)>>
       /\ Return(passed)
  /\ UNCHANGED <<compiled_path, environ, localFiles, debugSeen>>

enable_iorapd_readahead ==
  /\ Enter("enable_iorapd_readahead", NoArgs)
  /\ \E passed \in BOOLEAN :
       /\ funcCalls' = <<FuncCall(IORAP_COMMON_BASH_SCRIPT,
                                  "iorapd_readahead_enable", <<>>, passed)>>
       /\ Return(passed)
  /\ UNCHANGED <<compiled_path, environ, localFiles, debugSeen>>

disable_iorapd_readahead_retry ==
  /\ Enter("disable_iorapd_readahead", NoArgs)
  /\ \E passed \in BOOLEAN, again \in BOOLEAN :
       /\ funcCalls' =
            IF passed
            THEN <<FuncCall(IORAP_COMMON_BASH_SCRIPT,
                            "iorapd_readahead_disable", <<>>, TRUE)>>
            ELSE <<FuncCall(IORAP_COMMON_BASH_SCRIPT,
                            "iorapd_readahead_disable", <<>>, FALSE),
                   FuncCall(IORAP_COMMON_BASH_SCRIPT,
                            "iorapd_readahead_disable", <<>>, again)>>
       /\ Return(passed \/ again)
  /\ UNCHANGED <<compiled_path, environ, localFiles, debugSeen>>

disable_iorapd_readahead ==
  /\ Enter("disable_iorapd_readahead", NoArgs)
  /\ \E passed \in BOOLEAN :
       /\ funcCalls' = <<FuncCall(IORAP_COMMON_BASH_SCRIPT,
                                  "iorapd_readahead_disable", <<>>, passed)>>
       /\ Return(passed)
  /\ UNCHANGED <<compiled_path, environ, localFiles, debugSeen>>

\* ---------------------------------------------------------------- specification
Next ==
  \/ install_begin
  \/ install_exists
  \/ install_mkdir
  \/ install_push
  \/ wait_begin
  \/ wait_debug
  \/ wait_invoke
  \/ enable_iorapd_readahead
  \/ disable_iorapd_readahead

Spec == Init /\ [][Next]_vars

\* ---------------------------------------------------------------- expected strings
\* Written out with plain concatenation, independently of Format.
ExpectedPath(package, activity) ==
  "/data/misc/iorapd" \o "/" \o package \o "%2F" \o activity \o "." \o "compiled_trace.pb"

ExpectedMkdir(package, activity) ==
  "mkdir -p \"$(dirname \"" \o ExpectedPath(package, activity) \o "\")\""

ExpectedPush(input_file, package, activity) ==
  "adb push \"" \o input_file \o "\" \"" \o ExpectedPath(package, activity) \o "\""

InInstall == op = "iorapd_compiler_install_trace_file"
InWait == op = "wait_for_iorapd_finish"
Returned == pc = "idle" /\ ret # <<>>

\* C1: a call of iorapd_compiler_install_trace_file whose input file does not
\* exist never sends a command to the Command Runner (neither mkdir nor push)
\* and returns False.
C1_MissingFileNoRemoteCalls ==
  (InInstall /\ args.input_file \notin localFiles) =>
     /\ cmdCalls = <<>>
     /\ pc \in {"install_exists", "idle"}
     /\ (pc = "idle" => ret = <<FALSE>>)

C1_Witness ==
  /\ InInstall /\ Returned
  /\ args.input_file \notin localFiles
  /\ ret = <<FALSE>> /\ cmdCalls = <<>> /\ Len(stdout) = 1

\* C2: when the input file exists and the mkdir command reports failure, the
\* call returns False and the Command Runner has received exactly one command,
\* the mkdir; the push is never attempted.
C2_MkdirFailureShortCircuits ==
  (InInstall /\ args.input_file \in localFiles
     /\ Len(cmdCalls) >= 1 /\ ~cmdCalls[1].passed) =>
       /\ pc = "idle"
       /\ ret = <<FALSE>>
       /\ Len(cmdCalls) = 1
       /\ cmdCalls[1].runner = "run_adb_shell_command"
       /\ cmdCalls[1].cmd = ExpectedMkdir(args.package, args.activity)

C2_Witness ==
  /\ InInstall /\ Returned
  /\ args.input_file \in localFiles
  /\ Len(cmdCalls) = 1 /\ ~cmdCalls[1].passed /\ ret = <<FALSE>>

\* C3: when the input file exists and the mkdir succeeds, the value returned
\* is exactly the success flag reported by the push command.
C3_ReturnsPushResult ==
  (InInstall /\ Returned /\ args.input_file \in localFiles
     /\ Len(cmdCalls) >= 1 /\ cmdCalls[1].passed) =>
       /\ Len(cmdCalls) = 2
       /\ cmdCalls[2].cmd = ExpectedPush(args.input_file, args.package, args.activity)
       /\ ret = <<cmdCalls[2].passed>>

C3_Witness ==
  /\ InInstall /\ Returned
  /\ args.input_file \in localFiles
  /\ Len(cmdCalls) = 2 /\ cmdCalls[1].passed
  /\ ~cmdCalls[2].passed /\ ret = <<FALSE>>

\* C4: for every (package, activity) the derived path for suffix
\* "compiled_trace.pb" is "/data/misc/iorapd" + "/" + package + "%2F" +
\* activity + "." + "compiled_trace.pb", and that string is both the argument
\* of dirname in the mkdir command and the destination of the push command.
C4_PathDerivation ==
  /\ \A package \in Packages, activity \in Activities :
       _iorapd_path_to_data_file(package, activity, "compiled_trace.pb")
         = ExpectedPath(package, activity)
  /\ _iorapd_path_to_data_file("com.example.app", "MainActivity", "compiled_trace.pb")
       = "/data/misc/iorapd/com.example.app%2FMainActivity.compiled_trace.pb"
  /\ (InInstall /\ pc # "idle") =>
       compiled_path = ExpectedPath(args.package, args.activity)
  /\ (InInstall /\ Len(cmdCalls) >= 1) =>
       cmdCalls[1].cmd = ExpectedMkdir(args.package, args.activity)
  /\ (InInstall /\ Len(cmdCalls) >= 2) =>
       cmdCalls[2].cmd = ExpectedPush(args.input_file, args.package, args.activity)

C4_Witness ==
  /\ InInstall /\ Returned
  /\ args.package = "com.example.app" /\ args.activity = "MainActivity"
  /\ Len(cmdCalls) = 2
  /\ cmdCalls[2].cmd = "adb push \"/tmp/trace.pb\" \"/data/misc/iorapd/com.example.app%2FMainActivity.compiled_trace.pb\""

\* C5: in a call of wait_for_iorapd_finish with debug=True, verbose=y is in
\* the environment before run_shell_func is called (the call sees it) and is
\* still there when the call has returned, whatever the delegate reported.
C5_VerboseSetBeforeInvoke ==
  (InWait /\ args.debug) =>
     /\ (pc = "wait_debug" => funcCalls = <<>>)
     /\ (pc = "wait_invoke" => environ.verbose = "y" /\ funcCalls = <<>>)
     /\ \A i \in 1..Len(funcCalls) : funcCalls[i].verbose = "y"
     /\ (pc = "idle" => environ.verbose = "y" /\ Len(funcCalls) = 1)

C5_Witness ==
  /\ InWait /\ Returned /\ args.debug
  /\ ret = <<FALSE>>
  /\ Len(funcCalls) = 1 /\ funcCalls[1].verbose = "y"
  /\ environ.verbose = "y"

\* C6: the argument list wait_for_iorapd_finish hands to run_shell_func is
\* the 4-element sequence [package, activity, logcat_timestamp, str(timeout)].
C6_WaitArgumentOrder ==
  (InWait /\ Returned) =>
     /\ Len(funcCalls) = 1
     /\ Len(funcCalls[1].args) = 4
     /\ funcCalls[1].args[1] = args.package
     /\ funcCalls[1].args[2] = args.activity
     /\ funcCalls[1].args[3] = args.logcat_timestamp
     /\ funcCalls[1].args[4] = str(args.timeout)
     /\ (args.timeout = -1 => funcCalls[1].args[4] = "-1")
     /\ (args.timeout = 0 => funcCalls[1].args[4] = "0")
     /\ (args.timeout = 7 => funcCalls[1].args[4] = "7")
     /\ (args.timeout = 10 => funcCalls[1].args[4] = "10")

C6_Witness ==
  /\ InWait /\ Returned
  /\ args.timeout = 10
  /\ funcCalls[1].args = <<"pkg", "act", "10-31 12:00:00.000", "10">>

C8_SingleDelegatedCall ==
  (op \in {"enable_iorapd_readahead", "disable_iorapd_readahead",
           "wait_for_iorapd_finish"}) =>
     /\ cmdCalls = <<>>
     /\ Len(funcCalls) <= 1
     /\ (Returned => Len(funcCalls) = 1 /\ ret = <<funcCalls[1].passed>>)
     /\ (pc # "idle" => funcCalls = <<>>)

C8_Witness ==
  /\ op = "disable_iorapd_readahead" /\ Returned
  /\ Len(funcCalls) = 1 /\ ~funcCalls[1].passed /\ ret = <<FALSE>>

\* C9: the Command Runner calls of iorapd_compiler_install_trace_file are
\* always a prefix of [mkdir of the parent directory, push of the file]; a
\* failed push ends the call with False and nothing further is issued.
C9_CommandSequenceIsPrefix ==
  InInstall =>
     /\ Len(cmdCalls) <= 2
     /\ (Len(cmdCalls) >= 1 =>
           /\ cmdCalls[1].runner = "run_adb_shell_command"
           /\ cmdCalls[1].cmd = ExpectedMkdir(args.package, args.activity))
     /\ (Len(cmdCalls) = 2 =>
           /\ cmdCalls[1].passed
           /\ cmdCalls[2].runner = "run_shell_command"
           /\ cmdCalls[2].cmd = ExpectedPush(args.input_file, args.package, args.activity)
           /\ pc = "idle"
           /\ (~cmdCalls[2].passed => ret = <<FALSE>>))
     /\ funcCalls = <<>>

C9_Witness ==
  /\ InInstall /\ Returned
  /\ Len(cmdCalls) = 2
  /\ cmdCalls[1].passed /\ ~cmdCalls[2].passed
  /\ cmdCalls[2].runner = "run_shell_command"
  /\ ret = <<FALSE>>

\* C10: between calls verbose is set iff some earlier wait_for_iorapd_finish
\* call had debug=True; only that step changes the signal, nothing clears it,
\* and every delegate call of wait_for_iorapd_finish sees verbose=y iff such a
\* call has been made (this one included).
C10_VerboseIffDebugSeen ==
  /\ [](pc = "idle" => ((environ.verbose = "y") <=> debugSeen))
  /\ [](environ.verbose \in {NoValue, "y"})
  /\ []((InWait /\ Len(funcCalls) >= 1) =>
          ((funcCalls[1].verbose = "y") <=> debugSeen))
  /\ [][(environ'.verbose # environ.verbose) =>
          (InWait /\ pc = "wait_debug" /\ args.debug /\ environ'.verbose = "y")]_vars
  /\ [][(environ.verbose = "y") => (environ'.verbose = "y")]_vars

C10_Witness ==
  /\ InWait /\ Returned /\ ~args.debug
  /\ debugSeen
  /\ environ.verbose = "y"
  /\ funcCalls[1].verbose = "y"

====
